---- MODULE Spec2Model ----
(***************************************************************************)
(* Model of the alert monitoring scheduler of krenoo-backend               *)
(* (src/app/workers/scraper_worker.py): the scheduler loop, the per-alert  *)
(* check cycle (process_alert), the cadence policy                         *)
(* (get_check_interval_seconds), boost expiry and the cleanup sweep.       *)
(*                                                                         *)
(* Time is counted in whole seconds since the start of the run (now) and   *)
(* the calendar date as a day number (today).  The run may cross midnight  *)
(* at any moment, so the date advances by its own action.                  *)
(***************************************************************************)
EXTENDS Integers, Sequences, FiniteSets, TLC

VARIABLES
    now,          \* datetime.now(timezone.utc), seconds
    today,        \* datetime.now(timezone.utc).date(), day number
    alerts,       \* table user_alerts: alert id -> row
    ledger,       \* table detected_slots: sequence of committed rows
    notified,     \* calls of send_notification per slot key
    pc,           \* position of scheduler_loop
    loop_count,   \* scheduler_loop.loop_count
    queue,        \* rows loaded by this tick and not yet looked at
    boosted_count,\* scheduler_loop.boosted_count of this tick
    tickLog,      \* what this tick did with each alert
    pa,           \* the process_alert call in flight (its session and locals)
    prev,         \* the call before it, if it notified and then failed
    probe,        \* one evaluation of the cadence policy (see SpecCadence)
    rc,           \* one pass of the cleanup on its own (see SpecReclaim)
    sn            \* one send_notification call on its own (see SpecNotify)

vars == <<now, today, alerts, ledger, notified, pc, loop_count, queue,
          boosted_count, tickLog, pa, prev, probe, rc, sn>>

----------------------------------------------------------------------------
(* Bounds of the model *)

MaxTime == 120
MaxDay == 2
MaxFetch == 2
MaxNotify == 2
MaxProbeStep == 9
MaxAge == 8
MaxEndpoints == 2

(* Program constants *)

BoostCheckIntervalSeconds == 30
SecondsPerMinute == 60
WORKER_CHECK_INTERVAL == 60
BoostedSleep == 10
CleanupEvery == 100
RetentionDays == 7
BackoffSeconds == 10
BoostDuration == 86400

Null == -1

AlertIds == {"a1", "a2"}
Clubs == {"c1"}
ClubIds == {"c1", "c0"}
Playgrounds == {"A", "B"}
StartTimes == {1830, 1900}
Durations == {60, 90}
Dates == 0..MaxDay

----------------------------------------------------------------------------
(* The availability provider: what one fetch can return for a date.       *)
(* A playground and start time can come back with several duration/price  *)
(* options, each its own entry.                                            *)

(* The planning of the club, in the order the provider lists it. *)
Planning ==
    << [playground_id |-> "A", start_time |-> 1830, duration_minutes |-> 60],
       [playground_id |-> "A", start_time |-> 1830, duration_minutes |-> 90],
       [playground_id |-> "B", start_time |-> 1900, duration_minutes |-> 60] >>

InWindow(e, time_from, time_to) ==
    e.start_time >= time_from /\ e.start_time < time_to

(* The entries of Planning at the positions I, in order. *)
RECURSIVE Pick(_, _)
Pick(I, n) ==
    IF n = 0 THEN <<>>
    ELSE IF n \in I THEN Append(Pick(I, n - 1), Planning[n])
         ELSE Pick(I, n - 1)

(* What one call can return: at most MaxFetch bookable entries of the     *)
(* planning that start in the time window, each with the date asked for.  *)
get_available_slots(date, time_from, time_to) ==
    { [i \in 1..Len(s) |-> [playground_id |-> s[i].playground_id,
                            date |-> date,
                            start_time |-> s[i].start_time,
                            duration_minutes |-> s[i].duration_minutes]]
      : s \in { Pick(I, Len(Planning)) :
                  I \in { J \in SUBSET (1..Len(Planning)) :
                            /\ Cardinality(J) <= MaxFetch
                            /\ \A n \in J : InWindow(Planning[n], time_from, time_to) } } }

----------------------------------------------------------------------------
(* Slot keys and the ledger *)

SlotKeys == AlertIds \X Playgrounds \X Dates \X StartTimes

KeyOf(row) == <<row.alert_id, row.playground_id, row.date, row.start_time>>

DetectedSlot(alert_id, slot) ==
    [alert_id |-> alert_id,
     playground_id |-> slot.playground_id,
     date |-> slot.date,
     start_time |-> slot.start_time,
     duration_minutes |-> slot.duration_minutes]

(* What a query of the session sees: the committed rows and the rows the  *)
(* session has added (flushed before the query runs).                      *)
SessionRows(committed, pending) == committed \o pending

ExistingMutNoPending(rows, alert_id, slot) ==
    \E i \in 1..Len(ledger) :
        /\ ledger[i].alert_id = alert_id
        /\ ledger[i].playground_id = slot.playground_id
        /\ ledger[i].date = slot.date
        /\ ledger[i].start_time = slot.start_time

ExistingMutWithDuration(rows, alert_id, slot) ==
    \E i \in 1..Len(rows) :
        /\ rows[i].alert_id = alert_id
        /\ rows[i].playground_id = slot.playground_id
        /\ rows[i].date = slot.date
        /\ rows[i].start_time = slot.start_time
        /\ rows[i].duration_minutes = slot.duration_minutes

(* The select of process_alert: a row with the same alert, playground,    *)
(* date and start time.                                                    *)
Existing(rows, alert_id, slot) ==
    \E i \in 1..Len(rows) :
        /\ rows[i].alert_id = alert_id
        /\ rows[i].playground_id = slot.playground_id
        /\ rows[i].date = slot.date
        /\ rows[i].start_time = slot.start_time

----------------------------------------------------------------------------
(* Cadence policy *)

BoostUnexpired(alert, t) ==
    /\ alert.boost_active
    /\ alert.boost_expires_at # Null
    /\ alert.boost_expires_at > t

get_check_interval_secondsMutFlagOnly(alert, t) ==
    IF alert.boost_active /\ alert.boost_expires_at # Null
    THEN BoostCheckIntervalSeconds
    ELSE alert.check_interval_minutes * SecondsPerMinute

get_check_interval_secondsMutBaseOnly(alert, t) ==
    alert.check_interval_minutes * SecondsPerMinute

get_check_interval_seconds(alert, t) ==
    IF alert.boost_active /\ alert.boost_expires_at # Null
       /\ alert.boost_expires_at > t
    THEN BoostCheckIntervalSeconds
    ELSE alert.check_interval_minutes * SecondsPerMinute

NotDueMutInclusive(alert, t) ==
    /\ alert.last_checked_at # Null
    /\ t - alert.last_checked_at <= get_check_interval_seconds(alert, t)

(* The skip test of the sweep: `continue` when the alert was checked and  *)
(* fewer seconds than the interval have passed.                            *)
NotDue(alert, t) ==
    /\ alert.last_checked_at # Null
    /\ t - alert.last_checked_at < get_check_interval_seconds(alert, t)

----------------------------------------------------------------------------
(* Initial state *)

NoStats == [new_slots |-> 0, notifications_sent |-> 0, errors |-> 0]

NoPrev == [id |-> "a1", slots |-> <<>>, sent |-> {}]

(* Alerts as the API creates them (create_alert): active, no baseline,   *)
(* never checked, with or without a boost.  BoostLeft is what remains of  *)
(* a boost that was activated before the run.                              *)
BoostLeft == 40

NewAlert(d, w, c, m, boosted) ==
    [is_active |-> TRUE,
     target_date |-> d,
     time_from |-> w[1],
     time_to |-> w[2],
     club_id |-> c,
     check_interval_minutes |-> m,
     baseline_scraped |-> FALSE,
     last_checked_at |-> Null,
     boost_active |-> boosted,
     boost_expires_at |-> IF boosted THEN BoostLeft ELSE Null]

(* What a select by id finds once the alert was deleted: no row.  The    *)
(* queries of the worker all ask for is_active or boost_active and never   *)
(* return it.                                                              *)
NoRow == [NewAlert(Null, <<0, 0>>, "c0", 0, FALSE) EXCEPT !.is_active = FALSE]

NoBefore == [last_checked_at |-> Null, baseline_scraped |-> FALSE, ledger |-> <<>>,
             row |-> NewAlert(0, <<0, 0>>, "c1", 1, FALSE)]

(* No call in flight. *)
Idle == [pc |-> "idle", id |-> "a1", outcome |-> "none", is_baseline |-> FALSE,
         target_date |-> 0, time_from |-> 0, time_to |-> 0,
         slots |-> <<>>, i |-> 1, pending |-> <<>>, sent |-> {},
         stats |-> NoStats, before |-> NoBefore]

InitAlerts ==
    { [a \in AlertIds |-> IF a = "a1" THEN r1 ELSE r2] :
        r1 \in { NewAlert(1, <<1800, 2000>>, c, m, b) :
                    c \in ClubIds, m \in {1, 3}, b \in BOOLEAN },
        r2 \in { NewAlert(2, <<1900, 2000>>, "c1", 1, FALSE) } }

(* No cleanup pass and no send_notification call under observation. *)
NoPass == [pc |-> "idle", failure |-> "none", alerts |-> <<>>, ledger |-> <<>>]

NoFlags == [email_sent |-> FALSE, email_sent_at |-> Null,
            push_sent |-> FALSE, push_sent_at |-> Null]

NoCall == [pc |-> "idle", is_baseline |-> FALSE, email |-> FALSE,
           email_sent |-> FALSE, query_failed |-> FALSE,
           push_tokens |-> <<>>, j |-> 1,
           attempted |-> {}, pushed |-> {}, notifications_sent |-> 0,
           result |-> FALSE, detected_slot |-> NoFlags, row |-> NoFlags]

NoProbe == [alert |-> NewAlert(0, <<0, 0>>, "c1", 1, FALSE), t |-> 0,
            interval |-> 0, due |-> FALSE, evaluated |-> FALSE, was_due |-> FALSE]

Init ==
    /\ now = 0
    /\ today = 1
    /\ alerts \in InitAlerts
    /\ ledger = <<>>
    /\ notified = [k \in SlotKeys |-> 0]
    /\ pc = "startup"
    /\ loop_count = CleanupEvery - 2
    /\ queue = <<>>
    /\ boosted_count = 0
    /\ tickLog = [a \in AlertIds |-> "none"]
    /\ pa = Idle
    /\ prev = NoPrev
    /\ probe = NoProbe
    /\ rc = NoPass
    /\ sn = NoCall

----------------------------------------------------------------------------
(* Boost expiry and the cleanup sweep *)

expire_boostsMutRenew(al, t) ==
    [a \in AlertIds |->
        IF al[a].boost_active /\ al[a].boost_expires_at # Null
           /\ al[a].boost_expires_at < t
        THEN [al[a] EXCEPT !.boost_expires_at = t + BoostLeft]
        ELSE al[a]]

(* The alerts with boost_active and boost_expires_at < now get the flag   *)
(* cleared and the expiry set to None.                                     *)
expire_boosts(al, t) ==
    [a \in AlertIds |->
        IF al[a].boost_active /\ al[a].boost_expires_at # Null
           /\ al[a].boost_expires_at < t
        THEN [al[a] EXCEPT !.boost_active = FALSE, !.boost_expires_at = Null]
        ELSE al[a]]

DeactivateExpiredMutKeepBoost(al, day) ==
    [a \in AlertIds |->
        IF al[a].target_date < day /\ al[a].is_active
        THEN [al[a] EXCEPT !.is_active = FALSE]
        ELSE al[a]]

(* Step 2 of cleanup_expired_data *)
DeactivateExpired(al, day) ==
    [a \in AlertIds |->
        IF al[a].target_date < day /\ al[a].is_active
        THEN [al[a] EXCEPT !.is_active = FALSE, !.boost_active = FALSE]
        ELSE al[a]]

IsRecentMutWeek(row) == row.date > today - RetentionDays

(* Step 3 of cleanup_expired_data *)
IsRecent(row) == ~(row.date < today - RetentionDays)

PruneOld(rows) == SelectSeq(rows, IsRecent)

(* Where the pass raises, if it does: in expire_boosts, in the query for  *)
(* the past alerts, or in the delete (or the commit after it).             *)
CleanupFailures == {"none", "expire", "deactivate", "prune"}

(* One session, one try: expire_boosts commits on its own when it cleared *)
(* a boost; the deactivations and the delete share the commit at the end,  *)
(* and `except` leaves the session without it.                             *)
Cleanup(failure) ==
    /\ alerts' = CASE failure = "none" ->
                        DeactivateExpired(expire_boosts(alerts, now), today)
                   [] failure = "expire" -> alerts
                   [] OTHER -> expire_boosts(alerts, now)
    /\ ledger' = IF failure = "none" THEN PruneOld(ledger) ELSE ledger

cleanup_expired_data == \E failure \in CleanupFailures : Cleanup(failure)

----------------------------------------------------------------------------
(* scheduler_loop *)

Startup ==
    /\ pc = "startup"
    /\ cleanup_expired_data
    /\ pc' = "tick"
    /\ UNCHANGED <<now, today, notified, loop_count, queue, boosted_count,
                   tickLog, pa, prev, probe, rc, sn>>

(* The rows a tick loads: active, target date today or later. *)
Loaded(al, day) == { a \in AlertIds : al[a].is_active /\ al[a].target_date >= day }

Orders(S) ==
    { q \in [1..Cardinality(S) -> S] :
        \A i, j \in 1..Cardinality(S) : i # j => q[i] # q[j] }

TickBegin ==
    /\ pc = "tick"
    /\ loop_count' = loop_count + 1
    /\ alerts' = expire_boosts(alerts, now)
    /\ \E order \in Orders(Loaded(alerts', today)) :
          queue' = [i \in 1..Len(order) |->
                        [id |-> order[i], row |-> alerts'[order[i]]]]
    /\ boosted_count' =
          Cardinality({ a \in Loaded(alerts', today) : BoostUnexpired(alerts'[a], now) })
    /\ tickLog' = [a \in AlertIds |->
                      IF a \in Loaded(alerts', today) THEN "loaded" ELSE "none"]
    /\ pc' = "sweep"
    /\ UNCHANGED <<now, today, ledger, notified, pa, prev, probe, rc, sn>>

AtNextMutOverlap == pc = "sweep" /\ queue # <<>>

(* `for alert in alerts:` takes the next alert once `await process_alert`  *)
(* and the pause after it have returned.                                   *)
AtNext == pc = "sweep" /\ pa.pc = "idle" /\ queue # <<>>

LoadedRowMutRefreshed(e) == alerts[e.id]

(* `alert` of `for alert in alerts`: the object the tick's query loaded;  *)
(* the tick's session does not read the row again during the sweep.        *)
LoadedRow(e) == e.row

SweepSkip ==
    /\ AtNext
    /\ NotDue(LoadedRow(Head(queue)), now)
    /\ queue' = Tail(queue)
    /\ tickLog' = [tickLog EXCEPT ![Head(queue).id] = "skipped"]
    /\ UNCHANGED <<now, today, alerts, ledger, notified, pc, loop_count,
                   boosted_count, pa, prev, probe, rc, sn>>

CleanupIsDueMutNever(n) == FALSE

(* `if loop_count % 100 == 0:` *)
CleanupIsDue(n) == n % CleanupEvery = 0

SweepEnd ==
    /\ pc = "sweep" /\ pa.pc = "idle" /\ queue = <<>>
    /\ pc' = IF CleanupIsDue(loop_count) THEN "cleanup" ELSE "sleep"
    /\ UNCHANGED <<now, today, alerts, ledger, notified, loop_count, queue,
                   boosted_count, tickLog, pa, prev, probe, rc, sn>>

PeriodicCleanup ==
    /\ pc = "cleanup"
    /\ cleanup_expired_data
    /\ pc' = "sleep"
    /\ UNCHANGED <<now, today, notified, loop_count, queue, boosted_count,
                   tickLog, pa, prev, probe, rc, sn>>

has_boostedMutLoaded == boosted_count > 0

(* The query before the sleep: is_active, boost_active and                *)
(* boost_expires_at > now, limit 1.                                        *)
has_boosted ==
    \E a \in AlertIds : alerts[a].is_active /\ BoostUnexpired(alerts[a], now)

sleep_time == IF has_boosted THEN BoostedSleep ELSE WORKER_CHECK_INTERVAL

Sleep ==
    /\ pc = "sleep"
    /\ now + sleep_time <= MaxTime
    /\ now' = now + sleep_time
    /\ pc' = "tick"
    /\ UNCHANGED <<today, alerts, ledger, notified, loop_count, queue,
                   boosted_count, tickLog, pa, prev, probe, rc, sn>>

(* Midnight (UTC) passes: between two alerts of a sweep, or while the     *)
(* loop sleeps.                                                            *)
DayPasses ==
    /\ pc \in {"sweep", "sleep"}
    /\ pa.pc = "idle"
    /\ today < MaxDay
    /\ today' = today + 1
    /\ UNCHANGED <<now, alerts, ledger, notified, pc, loop_count, queue,
                   boosted_count, tickLog, pa, prev, probe, rc, sn>>

----------------------------------------------------------------------------
(* process_alert, called by the sweep for the next loaded alert when it   *)
(* is due.  The alert row is read again from the table.                    *)

DueMutAlways == AtNext

Due == AtNext /\ ~NotDue(LoadedRow(Head(queue)), now)

Begin(id) ==
    /\ queue' = Tail(queue)
    /\ tickLog' = [tickLog EXCEPT ![id] = "running"]

(* The state of the tables when the call started; row is the alert as   *)
(* the session loaded it.                                                  *)
Before(id) ==
    [last_checked_at |-> alerts[id].last_checked_at,
     baseline_scraped |-> alerts[id].baseline_scraped,
     ledger |-> ledger,
     row |-> alerts[id]]

(* An early return: nothing was fetched. *)
Returned(id, outcome, stats) ==
    [Idle EXCEPT !.pc = "done", !.id = id, !.outcome = outcome,
                 !.stats = stats, !.before = Before(id)]

NotFoundMutError(stats) == [stats EXCEPT !.errors = @ + 1]

(* `if not alert:` a warning is logged and stats is returned as it is. *)
NotFound(stats) == stats

(* The alert was deleted after the tick loaded it. *)
PA_NotFound ==
    /\ Due
    /\ LET id == Head(queue).id IN
        /\ alerts[id] = NoRow
        /\ Begin(id)
        /\ pa' = Returned(id, "not_found", NotFound(NoStats))
    /\ UNCHANGED <<now, today, alerts, ledger, notified, pc, loop_count,
                   boosted_count, prev, probe, rc, sn>>

(* `if not alert.is_active: return stats` *)
PA_Inactive ==
    /\ Due
    /\ LET id == Head(queue).id IN
        /\ alerts[id] # NoRow
        /\ ~alerts[id].is_active
        /\ Begin(id)
        /\ pa' = Returned(id, "inactive", NoStats)
    /\ UNCHANGED <<now, today, alerts, ledger, notified, pc, loop_count,
                   boosted_count, prev, probe, rc, sn>>

DeactivatedMutKeepBoost(alert) == [alert EXCEPT !.is_active = FALSE]

(* alert.is_active = False; alert.boost_active = False *)
Deactivated(alert) == [alert EXCEPT !.is_active = FALSE, !.boost_active = FALSE]

(* `if alert.target_date < today`: deactivate, commit, return *)
PA_Expired ==
    /\ Due
    /\ LET id == Head(queue).id IN
        /\ alerts[id].is_active
        /\ alerts[id].target_date < today
        /\ alerts' = [alerts EXCEPT ![id] = Deactivated(@)]
        /\ Begin(id)
        /\ pa' = Returned(id, "expired", NoStats)
    /\ UNCHANGED <<now, today, ledger, notified, pc, loop_count,
                   boosted_count, prev, probe, rc, sn>>

ProceedsMutUnchecked(id) == TRUE

(* Past `if not alert.is_active` and `if alert.target_date < today` *)
Proceeds(id) ==
    /\ alerts[id].is_active
    /\ ~(alerts[id].target_date < today)

HasClubMutAny(club_id) == TRUE

(* select(Club).where(Club.id == alert.club_id), scalar_one_or_none *)
HasClub(club_id) == club_id \in Clubs

(* `if not club`: count an error, return *)
PA_NoClub ==
    /\ Due
    /\ LET id == Head(queue).id IN
        /\ Proceeds(id)
        /\ ~HasClub(alerts[id].club_id)
        /\ Begin(id)
        /\ pa' = Returned(id, "no_club", [NoStats EXCEPT !.errors = @ + 1])
    /\ UNCHANGED <<now, today, alerts, ledger, notified, pc, loop_count,
                   boosted_count, prev, probe, rc, sn>>

(* The cycle goes on to the provider call. *)
PA_Start ==
    /\ Due
    /\ LET id == Head(queue).id IN
        /\ Proceeds(id)
        /\ HasClub(alerts[id].club_id)
        /\ Begin(id)
        /\ pa' = [Idle EXCEPT !.pc = "fetch", !.id = id,
                              !.is_baseline = ~alerts[id].baseline_scraped,
                              !.target_date = alerts[id].target_date,
                              !.time_from = alerts[id].time_from,
                              !.time_to = alerts[id].time_to,
                              !.before = Before(id)]
    /\ UNCHANGED <<now, today, alerts, ledger, notified, pc, loop_count,
                   boosted_count, prev, probe, rc, sn>>

ExceptMutSilent(stats) == stats

(* The `except Exception` of process_alert: an error is counted; the      *)
(* session is closed without a commit, so what it added is dropped.        *)
Except(stats) == [stats EXCEPT !.errors = @ + 1]

UnwrittenMutTouch(alert, t) == [alert EXCEPT !.last_checked_at = t]

(* The session is left without a commit: the alert's row is as it was     *)
(* (last_checked_at is assigned only after the slot loop).                 *)
Unwritten(alert, t) == alert

(* scraper.get_available_slots raises. *)
PA_FetchFails ==
    /\ pa.pc = "fetch"
    /\ pa' = [pa EXCEPT !.pc = "done", !.outcome = "fetch_failed",
                        !.stats = Except(@)]
    /\ alerts' = [alerts EXCEPT ![pa.id] = Unwritten(@, now)]
    /\ UNCHANGED <<now, today, ledger, notified, pc, loop_count, queue,
                   boosted_count, tickLog, prev, probe, rc, sn>>

PA_Fetch ==
    /\ pa.pc = "fetch"
    /\ \E slots \in get_available_slots(pa.target_date, pa.time_from, pa.time_to) :
          pa' = [pa EXCEPT !.pc = "slots", !.slots = slots]
    /\ UNCHANGED <<now, today, alerts, ledger, notified, pc, loop_count, queue,
                   boosted_count, tickLog, prev, probe, rc, sn>>

(* `for slot in slots:` at slots[i] *)
AtSlot == pa.pc = "slots" /\ pa.i <= Len(pa.slots)

Known(slot) == Existing(SessionRows(ledger, pa.pending), pa.id, slot)

(* `if existing.scalar_one_or_none(): continue` *)
PA_SlotKnown ==
    /\ AtSlot
    /\ Known(pa.slots[pa.i])
    /\ pa' = [pa EXCEPT !.i = @ + 1]
    /\ UNCHANGED <<now, today, alerts, ledger, notified, pc, loop_count, queue,
                   boosted_count, tickLog, prev, probe, rc, sn>>

NotifiesMutAlways(is_baseline) == TRUE

(* `if not is_baseline:` send_notification *)
Notifies(is_baseline) == ~is_baseline

(* A new slot of a baseline cycle: added, not notified. *)
PA_SlotSilent ==
    /\ AtSlot
    /\ ~Known(pa.slots[pa.i])
    /\ ~Notifies(pa.is_baseline)
    /\ pa' = [pa EXCEPT !.i = @ + 1,
                        !.pending = Append(@, DetectedSlot(pa.id, pa.slots[pa.i])),
                        !.stats.new_slots = @ + 1]
    /\ UNCHANGED <<now, today, alerts, ledger, notified, pc, loop_count, queue,
                   boosted_count, tickLog, prev, probe, rc, sn>>

AddedMutOnlySent(pending, row, sent) ==
    IF sent THEN Append(pending, row) ELSE pending

(* db.add(detected_slot) comes before the call and its result only feeds  *)
(* the statistics.                                                         *)
Added(pending, row, sent) == Append(pending, row)

(* A new slot after the baseline: added, send_notification called; sent   *)
(* is what it returns.                                                     *)
PA_SlotNotify ==
    /\ AtSlot
    /\ ~Known(pa.slots[pa.i])
    /\ Notifies(pa.is_baseline)
    /\ LET row == DetectedSlot(pa.id, pa.slots[pa.i]) IN
        /\ notified[KeyOf(row)] < MaxNotify
        /\ notified' = [notified EXCEPT ![KeyOf(row)] = @ + 1]
        /\ \E sent \in BOOLEAN :
              pa' = [pa EXCEPT !.i = @ + 1,
                               !.pending = Added(@, row, sent),
                               !.sent = @ \cup {KeyOf(row)},
                               !.stats.new_slots = @ + 1,
                               !.stats.notifications_sent =
                                    IF sent THEN @ + 1 ELSE @]
    /\ UNCHANGED <<now, today, alerts, ledger, pc, loop_count, queue,
                   boosted_count, tickLog, prev, probe, rc, sn>>

BaselineDoneMutNeedsSlots(baseline_scraped, is_baseline, slots) ==
    IF is_baseline /\ slots # <<>> THEN TRUE ELSE baseline_scraped

(* `if is_baseline: alert.baseline_scraped = True`, after the loop *)
BaselineDone(baseline_scraped, is_baseline, slots) ==
    IF is_baseline THEN TRUE ELSE baseline_scraped

CommittedMutReplace(rows, pending) == pending

(* db.commit(): the rows the session added are inserted after those there. *)
Committed(rows, pending) == rows \o pending

FinalWriteMutWholeRow(current, loaded, is_baseline, slots, t) ==
    [loaded EXCEPT !.baseline_scraped = BaselineDone(@, is_baseline, slots),
                   !.last_checked_at = t]

(* The UPDATE of the commit: the attributes assigned on the loaded object, *)
(* baseline_scraped (when is_baseline) and last_checked_at; the other      *)
(* columns of the row stay as the table has them.                          *)
FinalWrite(current, loaded, is_baseline, slots, t) ==
    [current EXCEPT !.baseline_scraped = BaselineDone(@, is_baseline, slots),
                    !.last_checked_at = t]

(* End of the loop: baseline flag, last_checked_at, commit. *)
PA_Commit ==
    /\ pa.pc = "slots" /\ pa.i > Len(pa.slots)
    /\ alerts' = [alerts EXCEPT
                    ![pa.id] = FinalWrite(@, pa.before.row, pa.is_baseline, pa.slots, now)]
    /\ ledger' = Committed(ledger, pa.pending)
    /\ pa' = [pa EXCEPT !.pc = "done", !.outcome = "committed"]
    /\ UNCHANGED <<now, today, notified, pc, loop_count, queue,
                   boosted_count, tickLog, prev, probe, rc, sn>>

RolledBackMutFlushed(rows, pending) == rows \o pending

(* The session is closed without a commit: the rows it added are gone. *)
RolledBack(rows, pending) == rows

(* An exception after the fetch (a query or the commit fails). *)
PA_Abort ==
    /\ pa.pc = "slots"
    /\ pa' = [pa EXCEPT !.pc = "done", !.outcome = "aborted",
                        !.pending = <<>>, !.stats = Except(@)]
    /\ alerts' = [alerts EXCEPT ![pa.id] = Unwritten(@, now)]
    /\ ledger' = RolledBack(ledger, pa.pending)
    /\ UNCHANGED <<now, today, notified, pc, loop_count, queue,
                   boosted_count, tickLog, prev, probe, rc, sn>>

RemainingMutStopOnError(q, stats) == IF stats.errors > 0 THEN <<>> ELSE q

(* The `for alert in alerts` loop goes on whatever stats the call returned. *)
Remaining(q, stats) == q

(* Back in the sweep: totals, then asyncio.sleep before the next alert. *)
Throttle ==
    /\ pa.pc = "done"
    /\ tickLog' = [tickLog EXCEPT ![pa.id] = IF pa.stats.errors > 0 THEN "error" ELSE "ok"]
    /\ prev' = IF pa.outcome = "aborted" /\ pa.sent # {}
               THEN [id |-> pa.id, slots |-> pa.slots, sent |-> pa.sent]
               ELSE NoPrev
    /\ pa' = Idle
    /\ queue' = Remaining(queue, pa.stats)
    /\ UNCHANGED <<now, today, alerts, ledger, notified, pc, loop_count,
                   boosted_count, probe, rc, sn>>

----------------------------------------------------------------------------
(* The API (src/app/api/routes/alerts.py), which runs beside the worker.  *)

(* PATCH /alerts/{id} with is_active: the owner pauses the alert, after  *)
(* the tick has loaded its alerts and between two cycles (a pause while   *)
(* the loop sleeps is a pause at the end of the sweep before it).          *)
update_alert(a, is_active) ==
    /\ pc = "sweep"
    /\ pa.pc = "idle"
    /\ alerts[a].is_active # is_active
    /\ alerts' = [alerts EXCEPT ![a].is_active = is_active]
    /\ UNCHANGED <<now, today, ledger, notified, pc, loop_count, queue,
                   boosted_count, tickLog, pa, prev, probe, rc, sn>>

Pause == \E a \in AlertIds : update_alert(a, FALSE)

----------------------------------------------------------------------------

Worker ==
    \/ Startup
    \/ TickBegin
    \/ SweepSkip
    \/ PA_Inactive
    \/ PA_Expired
    \/ PA_NoClub
    \/ PA_Start
    \/ PA_FetchFails
    \/ PA_Fetch
    \/ PA_SlotKnown
    \/ PA_SlotSilent
    \/ PA_SlotNotify
    \/ PA_Commit
    \/ PA_Abort
    \/ Throttle
    \/ SweepEnd
    \/ PeriodicCleanup
    \/ Sleep

Next ==
    \/ Worker
    \/ DayPasses
    \/ Pause

Spec == Init /\ [][Next]_vars

(* Alerts for the runs that follow failing cycles: a1 with a club that   *)
(* may be missing from the clubs table, both with one court in the window. *)
RetryAlerts ==
    { [a \in AlertIds |-> IF a = "a1" THEN r1 ELSE r2] :
        r1 \in { NewAlert(1, <<1900, 2000>>, c, m, FALSE) :
                    c \in ClubIds, m \in {1, 3} },
        r2 \in { NewAlert(1, <<1900, 2000>>, "c1", 1, FALSE) } }

InitRetry ==
    /\ now = 0
    /\ today = 1
    /\ alerts \in RetryAlerts
    /\ ledger = <<>>
    /\ notified = [k \in SlotKeys |-> 0]
    /\ pc = "startup"
    /\ loop_count = CleanupEvery - 2
    /\ queue = <<>>
    /\ boosted_count = 0
    /\ tickLog = [a \in AlertIds |-> "none"]
    /\ pa = Idle
    /\ prev = NoPrev
    /\ probe = NoProbe
    /\ rc = NoPass
    /\ sn = NoCall

(* The worker's loop keeps running; midnight and the owner owe nothing. *)
SpecRetry == InitRetry /\ [][Next]_vars /\ WF_vars(Worker)

----------------------------------------------------------------------------
(* The sweep under supervision: `except Exception` at the foot of the    *)
(* `while True` body catches what the sweep itself raises.                 *)

SupervisedMutExit(e) == "exit"

(* except Exception as e: log, traceback, then asyncio.sleep(10) *)
Supervised(e) == "backoff"

(* The session, expire_boosts or the query that loads the alerts raises;  *)
(* expire_boosts commits on its own, so it may have taken effect.          *)
TickFails ==
    /\ pc = "tick"
    /\ loop_count' = loop_count + 1
    /\ alerts' \in {alerts, expire_boosts(alerts, now)}
    /\ pc' = Supervised("load")
    /\ UNCHANGED <<now, today, ledger, notified, queue, boosted_count,
                   tickLog, pa, prev, probe, rc, sn>>

(* Something outside process_alert's own try raises between two alerts:   *)
(* the rest of the loaded alerts is not looked at in this tick.            *)
SweepFails ==
    /\ AtNext
    /\ queue' = <<>>
    /\ pc' = Supervised("sweep")
    /\ UNCHANGED <<now, today, alerts, ledger, notified, loop_count,
                   boosted_count, tickLog, pa, prev, probe, rc, sn>>

(* The has_boosted query before the sleep raises. *)
SleepFails ==
    /\ pc = "sleep"
    /\ pc' = Supervised("has_boosted")
    /\ UNCHANGED <<now, today, alerts, ledger, notified, loop_count, queue,
                   boosted_count, tickLog, pa, prev, probe, rc, sn>>

Backoff ==
    /\ pc = "backoff"
    /\ now + BackoffSeconds <= MaxTime
    /\ now' = now + BackoffSeconds
    /\ pc' = "tick"
    /\ UNCHANGED <<today, alerts, ledger, notified, loop_count, queue,
                   boosted_count, tickLog, pa, prev, probe, rc, sn>>

NextLoop ==
    \/ Next
    \/ TickFails
    \/ SweepFails
    \/ SleepFails
    \/ Backoff

(* One alert whose club is missing and one with a court in its window. *)
InitLoop ==
    /\ now = 0
    /\ today = 1
    /\ alerts = [a \in AlertIds |->
                    IF a = "a1" THEN NewAlert(1, <<1900, 2000>>, "c0", 1, FALSE)
                    ELSE NewAlert(1, <<1900, 2000>>, "c1", 1, FALSE)]
    /\ ledger = <<>>
    /\ notified = [k \in SlotKeys |-> 0]
    /\ pc = "startup"
    /\ loop_count = CleanupEvery - 2
    /\ queue = <<>>
    /\ boosted_count = 0
    /\ tickLog = [a \in AlertIds |-> "none"]
    /\ pa = Idle
    /\ prev = NoPrev
    /\ probe = NoProbe
    /\ rc = NoPass
    /\ sn = NoCall

(* The loop keeps running and sleeps end; failures owe nothing. *)
SpecLoop == InitLoop /\ [][NextLoop]_vars /\ WF_vars(Worker \/ Backoff)

----------------------------------------------------------------------------
(* The worker beside the API: the owner activates a boost or edits an     *)
(* alert at any moment, also while the alert's cycle is in flight.  The    *)
(* cleanup passes are the worker's, with their outcome kept in rc.         *)

(* POST /boosts/activate: refused while a boost is running; otherwise the *)
(* boost is set for its duration and the alert is made active again.       *)
activate_boost_on_alert(a) ==
    /\ ~BoostUnexpired(alerts[a], now)
    /\ alerts' = [alerts EXCEPT ![a].boost_active = TRUE,
                                ![a].boost_expires_at = now + BoostDuration,
                                ![a].is_active = TRUE]
    /\ UNCHANGED <<now, today, ledger, notified, pc, loop_count, queue,
                   boosted_count, tickLog, pa, prev, probe, rc, sn>>

(* PATCH /alerts/{id}: the fields sent are set on the row; a new target   *)
(* date resets the baseline.                                               *)
Updates == { [is_active |-> FALSE], [is_active |-> TRUE],
             [target_date |-> 2] }

Patched(alert, update_data) ==
    [f \in DOMAIN alert |->
        IF f \in DOMAIN update_data THEN update_data[f]
        ELSE IF f = "baseline_scraped" /\ "target_date" \in DOMAIN update_data
             THEN FALSE
             ELSE alert[f]]

Patch(a, update_data) ==
    /\ alerts' = [alerts EXCEPT ![a] = Patched(@, update_data)]
    /\ alerts' # alerts
    /\ UNCHANGED <<now, today, ledger, notified, pc, loop_count, queue,
                   boosted_count, tickLog, pa, prev, probe, rc, sn>>

(* The owner's calls that the runs follow.  On an alert whose date has    *)
(* passed and that was deactivated, while no cycle is in flight and up to  *)
(* the iteration of the periodic cleanup: a boost is activated on it.      *)
Belated(a) ==
    /\ pa.pc = "idle"
    /\ loop_count <= CleanupEvery
    /\ alerts[a].target_date < today
    /\ ~alerts[a].is_active

Reactivate ==
    \E a \in AlertIds :
        /\ Belated(a)
        /\ activate_boost_on_alert(a)

(* While a cycle is in flight: a boost is activated on its alert, or the  *)
(* alert is edited.                                                        *)
Concurrent(a) == pa.pc \in {"fetch", "slots"} /\ pa.id = a

ActivateInFlight ==
    \E a \in AlertIds :
        /\ Concurrent(a)
        /\ activate_boost_on_alert(a)

EditInFlight ==
    \E a \in AlertIds : \E update_data \in Updates :
        /\ Concurrent(a)
        /\ Patch(a, update_data)

(* cleanup_expired_data at startup and every hundredth loop. *)
Logged(pass, failure) == [NoPass EXCEPT !.pc = pass, !.failure = failure]

StartupCleanup ==
    /\ pc = "startup"
    /\ \E failure \in CleanupFailures :
          Cleanup(failure) /\ rc' = Logged("startup", failure)
    /\ pc' = "tick"
    /\ UNCHANGED <<now, today, notified, loop_count, queue, boosted_count,
                   tickLog, pa, prev, probe, sn>>

LoopCleanup ==
    /\ pc = "cleanup"
    /\ \E failure \in CleanupFailures :
          Cleanup(failure) /\ rc' = Logged("loop", failure)
    /\ pc' = "sleep"
    /\ UNCHANGED <<now, today, notified, loop_count, queue, boosted_count,
                   tickLog, pa, prev, probe, sn>>

ApiWorker ==
    \/ StartupCleanup
    \/ TickBegin
    \/ SweepSkip
    \/ PA_Inactive
    \/ PA_Expired
    \/ PA_NoClub
    \/ PA_Start
    \/ PA_FetchFails
    \/ PA_Fetch
    \/ PA_SlotKnown
    \/ PA_SlotSilent
    \/ PA_SlotNotify
    \/ PA_Commit
    \/ PA_Abort
    \/ Throttle
    \/ SweepEnd
    \/ LoopCleanup
    \/ Sleep

NextApi ==
    \/ ApiWorker
    \/ DayPasses
    \/ Pause
    \/ Reactivate

(* One alert whose date has passed and one dated today, the loop one     *)
(* iteration before its periodic cleanup.                                  *)
InitApi ==
    /\ now = 0
    /\ today = 1
    /\ \E c \in ClubIds :
          alerts = [a \in AlertIds |->
                      IF a = "a1" THEN NewAlert(0, <<1900, 2000>>, "c1", 1, FALSE)
                      ELSE NewAlert(1, <<1900, 2000>>, c, 1, FALSE)]
    /\ ledger = <<>>
    /\ notified = [k \in SlotKeys |-> 0]
    /\ pc = "startup"
    /\ loop_count = CleanupEvery - 1
    /\ queue = <<>>
    /\ boosted_count = 0
    /\ tickLog = [a \in AlertIds |-> "none"]
    /\ pa = Idle
    /\ prev = NoPrev
    /\ probe = NoProbe
    /\ rc = NoPass
    /\ sn = NoCall

(* The worker's loop keeps running; the owner and midnight owe nothing. *)
SpecApi == InitApi /\ [][NextApi]_vars /\ WF_vars(ApiWorker)

(* One alert running and one paused, with the owner's calls landing       *)
(* inside the cycles.                                                      *)
NextEdit ==
    \/ Worker
    \/ DayPasses
    \/ Pause
    \/ ActivateInFlight
    \/ EditInFlight

InitEdit ==
    /\ now = 0
    /\ today = 1
    /\ \E c \in ClubIds :
          alerts = [a \in AlertIds |->
                      IF a = "a1" THEN NewAlert(1, <<1900, 2000>>, c, 1, FALSE)
                      ELSE [NewAlert(1, <<1900, 2000>>, "c1", 1, FALSE)
                                EXCEPT !.is_active = FALSE]]
    /\ ledger = <<>>
    /\ notified = [k \in SlotKeys |-> 0]
    /\ pc = "startup"
    /\ loop_count = CleanupEvery - 1
    /\ queue = <<>>
    /\ boosted_count = 0
    /\ tickLog = [a \in AlertIds |-> "none"]
    /\ pa = Idle
    /\ prev = NoPrev
    /\ probe = NoProbe
    /\ rc = NoPass
    /\ sn = NoCall

SpecEdit == InitEdit /\ [][NextEdit]_vars

(* The owner activates a boost on an alert the tick has loaded and not    *)
(* yet looked at.                                                          *)
Queued(a) == \E i \in 1..Len(queue) : queue[i].id = a

ActivateQueued ==
    \E a \in AlertIds :
        /\ AtNext
        /\ Queued(a)
        /\ activate_boost_on_alert(a)

NextBoost ==
    \/ Worker
    \/ DayPasses
    \/ Pause
    \/ ActivateQueued

(* One alert running, on either base interval, with or without a boost  *)
(* activated before the run, and one paused.                               *)
InitBoost ==
    /\ now = 0
    /\ today = 1
    /\ \E c \in ClubIds, m \in {1, 3}, b \in BOOLEAN :
          alerts = [a \in AlertIds |->
                      IF a = "a1" THEN NewAlert(1, <<1900, 2000>>, c, m, b)
                      ELSE [NewAlert(1, <<1900, 2000>>, "c1", 1, FALSE)
                                EXCEPT !.is_active = FALSE]]
    /\ ledger = <<>>
    /\ notified = [k \in SlotKeys |-> 0]
    /\ pc = "startup"
    /\ loop_count = CleanupEvery - 1
    /\ queue = <<>>
    /\ boosted_count = 0
    /\ tickLog = [a \in AlertIds |-> "none"]
    /\ pa = Idle
    /\ prev = NoPrev
    /\ probe = NoProbe
    /\ rc = NoPass
    /\ sn = NoCall

SpecBoost == InitBoost /\ [][NextBoost]_vars

(* DELETE /alerts/{id}: the row goes, and with it the alert's rows of    *)
(* detected_slots (cascade).                                               *)
IsOfOther(a, row) == row.alert_id # a

RECURSIVE WithoutAlert(_, _)
WithoutAlert(rows, a) ==
    IF rows = <<>> THEN <<>>
    ELSE (IF IsOfOther(a, Head(rows)) THEN <<Head(rows)>> ELSE <<>>)
            \o WithoutAlert(Tail(rows), a)

delete_alert(a) ==
    /\ alerts[a] # NoRow
    /\ alerts' = [alerts EXCEPT ![a] = NoRow]
    /\ ledger' = WithoutAlert(ledger, a)
    /\ UNCHANGED <<now, today, notified, pc, loop_count, queue,
                   boosted_count, tickLog, pa, prev, probe, rc, sn>>

(* The owner deletes an alert the tick has loaded and not yet looked at. *)
DeleteQueued ==
    \E a \in AlertIds :
        /\ AtNext
        /\ Queued(a)
        /\ delete_alert(a)

NextDelete ==
    \/ Worker
    \/ PA_NotFound
    \/ DayPasses
    \/ Pause
    \/ DeleteQueued

SpecDelete == InitRetry /\ [][NextDelete]_vars

----------------------------------------------------------------------------
(* The cleanup on its own: alerts and slot rows of any age, one call of   *)
(* expire_boosts or one pass of cleanup_expired_data on them.              *)

ReclaimToday == MaxAge + 1

ReclaimRows ==
    { [NewAlert(d, <<1800, 2000>>, "c1", 1, b) EXCEPT
          !.is_active = act, !.boost_expires_at = e] :
        d \in {ReclaimToday - 1, ReclaimToday, ReclaimToday + 1},
        act \in BOOLEAN, b \in BOOLEAN,
        e \in {Null, BoostLeft - 10, BoostLeft, BoostLeft + 10} }

SlotAged(k) ==
    DetectedSlot("a1", [playground_id |-> "A", date |-> ReclaimToday - k,
                        start_time |-> 1830, duration_minutes |-> 60])

RECURSIVE Aged(_, _)
Aged(k, S) ==
    IF k < RetentionDays - 1 THEN <<>>
    ELSE (IF k \in S THEN <<SlotAged(k)>> ELSE <<>>) \o Aged(k - 1, S)

InitReclaim ==
    /\ now = BoostLeft
    /\ today = ReclaimToday
    /\ alerts \in [AlertIds -> ReclaimRows]
    /\ \E S \in SUBSET ((RetentionDays - 1)..MaxAge) : ledger = Aged(MaxAge, S)
    /\ notified = [k \in SlotKeys |-> 0]
    /\ pc = "startup"
    /\ loop_count = 0
    /\ queue = <<>>
    /\ boosted_count = 0
    /\ tickLog = [a \in AlertIds |-> "none"]
    /\ pa = Idle
    /\ prev = NoPrev
    /\ probe = NoProbe
    /\ rc = NoPass
    /\ sn = NoCall

(* expire_boosts as each tick calls it *)
ReclaimExpire ==
    /\ rc.pc = "idle"
    /\ alerts' = expire_boosts(alerts, now)
    /\ rc' = [pc |-> "expired", failure |-> "none", alerts |-> alerts,
              ledger |-> ledger]
    /\ UNCHANGED <<now, today, ledger, notified, pc, loop_count, queue,
                   boosted_count, tickLog, pa, prev, probe, sn>>

(* cleanup_expired_data, which may raise on the way *)
ReclaimPass ==
    /\ rc.pc = "idle"
    /\ \E failure \in CleanupFailures :
          /\ Cleanup(failure)
          /\ rc' = [pc |-> "cleaned", failure |-> failure, alerts |-> alerts,
                    ledger |-> ledger]
    /\ UNCHANGED <<now, today, notified, pc, loop_count, queue,
                   boosted_count, tickLog, pa, prev, probe, sn>>

NextReclaim == ReclaimExpire \/ ReclaimPass

SpecReclaim == InitReclaim /\ [][NextReclaim]_vars

----------------------------------------------------------------------------
(* expire_boosts beside the API: the select, the assignments on the rows  *)
(* it returned and the commit are separate moments, and the owner's boost  *)
(* activation is committed by another process at any of them.              *)

(* select(UserAlert).where(boost_active == True, boost_expires_at < now) *)
Expired(al, t) ==
    { a \in AlertIds : al[a].boost_active /\ al[a].boost_expires_at # Null
                          /\ al[a].boost_expires_at < t }

(* The UPDATE of the commit: boost_active and boost_expires_at of the      *)
(* rows that were selected, whatever the table holds for them by then.     *)
Cleared(al, selected) ==
    [a \in AlertIds |->
        IF a \in selected
        THEN [al[a] EXCEPT !.boost_active = FALSE, !.boost_expires_at = Null]
        ELSE al[a]]

InitExpire ==
    /\ now = BoostLeft
    /\ today = ReclaimToday
    /\ alerts \in [AlertIds -> ReclaimRows]
    /\ ledger = <<>>
    /\ notified = [k \in SlotKeys |-> 0]
    /\ pc = "tick"
    /\ loop_count = 0
    /\ queue = <<>>
    /\ boosted_count = 0
    /\ tickLog = [a \in AlertIds |-> "none"]
    /\ pa = Idle
    /\ prev = NoPrev
    /\ probe = NoProbe
    /\ rc = NoPass
    /\ sn = NoCall

ExpireSelect ==
    /\ rc.pc = "idle"
    /\ rc' = [pc |-> "selected", failure |-> "none", alerts |-> alerts,
              ledger |-> ledger]
    /\ UNCHANGED <<now, today, alerts, ledger, notified, pc, loop_count, queue,
                   boosted_count, tickLog, pa, prev, probe, sn>>

(* `if count > 0: await db.commit()` *)
ExpireCommit ==
    /\ rc.pc = "selected"
    /\ alerts' = Cleared(alerts, Expired(rc.alerts, now))
    /\ rc' = [rc EXCEPT !.pc = "expired"]
    /\ UNCHANGED <<now, today, ledger, notified, pc, loop_count, queue,
                   boosted_count, tickLog, pa, prev, probe, sn>>

ActivateAnytime == \E a \in AlertIds : activate_boost_on_alert(a)

NextExpire ==
    \/ ExpireSelect
    \/ ExpireCommit
    \/ ActivateAnytime

SpecExpire == InitExpire /\ [][NextExpire]_vars

----------------------------------------------------------------------------
(* send_notification on its own: one new slot of a cycle, the call made   *)
(* for it when the baseline is done, and the commit that ends the cycle.   *)

(* PushToken rows of the owner with is_active *)
Endpoints == 1..MaxEndpoints

InitNotify ==
    /\ now \in {10, 20}
    /\ today = 1
    /\ alerts = [a \in AlertIds |-> NewAlert(1, <<1800, 2000>>, "c1", 1, FALSE)]
    /\ ledger = <<>>
    /\ notified = [k \in SlotKeys |-> 0]
    /\ pc = "startup"
    /\ loop_count = 0
    /\ queue = <<>>
    /\ boosted_count = 0
    /\ tickLog = [a \in AlertIds |-> "none"]
    /\ pa = Idle
    /\ prev = NoPrev
    /\ probe = NoProbe
    /\ rc = NoPass
    /\ sn = NoCall

OnlySn == UNCHANGED <<now, today, alerts, ledger, notified, pc, loop_count,
                      queue, boosted_count, tickLog, pa, prev, probe, rc>>

(* db.add(detected_slot), then `if not is_baseline` *)
SlotAdded ==
    /\ sn.pc = "idle"
    /\ \E is_baseline \in BOOLEAN :
          sn' = [sn EXCEPT !.is_baseline = is_baseline,
                           !.pc = IF Notifies(is_baseline) THEN "user" ELSE "end"]
    /\ OnlySn

(* get_user_info: the owner's email, or None when the lookup fails *)
get_user_info ==
    /\ sn.pc = "user"
    /\ \E email \in BOOLEAN : sn' = [sn EXCEPT !.email = email, !.pc = "email"]
    /\ OnlySn

MarkEmailMutAlways(detected_slot, email_sent, t) ==
    [detected_slot EXCEPT !.email_sent = TRUE, !.email_sent_at = t]

(* `if email_sent:` sets the row's email_sent and email_sent_at *)
MarkEmail(detected_slot, email_sent, t) ==
    IF email_sent
    THEN [detected_slot EXCEPT !.email_sent = TRUE, !.email_sent_at = t]
    ELSE detected_slot

(* email_service.send_slot_notification reports the outcome as a truth   *)
(* value; it is called only when there is an address.                     *)
EmailOutcomes(email) == {b \in BOOLEAN : b => email}

(* `if email:` send_slot_notification, then `if email_sent:` *)
send_slot_notification ==
    /\ sn.pc = "email"
    /\ \E email_sent \in EmailOutcomes(sn.email) :
          sn' = [sn EXCEPT
                    !.pc = "tokens",
                    !.email_sent = email_sent,
                    !.detected_slot = MarkEmail(@, email_sent, now),
                    !.notifications_sent = IF email_sent THEN @ + 1 ELSE @]
    /\ OnlySn

(* The query for the owner's active push tokens. *)
LoadPushTokens ==
    /\ sn.pc = "tokens"
    /\ \E S \in SUBSET Endpoints : \E push_tokens \in Orders(S) :
          sn' = [sn EXCEPT !.push_tokens = push_tokens, !.j = 1, !.pc = "push"]
    /\ OnlySn

(* The query raises: `except Exception` after the loop catches it. *)
LoadPushTokensFails ==
    /\ sn.pc = "tokens"
    /\ sn' = [sn EXCEPT !.query_failed = TRUE, !.pc = "return"]
    /\ OnlySn

AfterPushMutStopOnFailure(push_tokens, j, success) ==
    IF success THEN j + 1 ELSE Len(push_tokens) + 1

(* `for pt in push_tokens`: the next token, whatever `success` was *)
AfterPush(push_tokens, j, success) == j + 1

(* send_slot_push_notification returns success; a failure is logged *)
send_slot_push_notification ==
    /\ sn.pc = "push"
    /\ sn.j <= Len(sn.push_tokens)
    /\ \E success \in BOOLEAN :
          sn' = [sn EXCEPT
                    !.j = AfterPush(sn.push_tokens, @, success),
                    !.attempted = @ \cup {sn.push_tokens[sn.j]},
                    !.pushed = IF success THEN @ \cup {sn.push_tokens[sn.j]} ELSE @,
                    !.notifications_sent = IF success THEN @ + 1 ELSE @]
    /\ OnlySn

AnySentMutAlways(notifications_sent) == TRUE

(* return notifications_sent > 0 *)
AnySent(notifications_sent) == notifications_sent > 0

Return ==
    /\ \/ sn.pc = "push" /\ sn.j > Len(sn.push_tokens)
       \/ sn.pc = "return"
    /\ sn' = [sn EXCEPT !.result = AnySent(sn.notifications_sent), !.pc = "end"]
    /\ OnlySn

(* db.commit() at the end of the cycle writes the row with its flags. *)
RowCommitted ==
    /\ sn.pc = "end"
    /\ sn' = [sn EXCEPT !.row = sn.detected_slot, !.pc = "committed"]
    /\ OnlySn

(* The commit raises, or a later slot of the cycle does: `except` logs    *)
(* and the session closes with the row unwritten.                          *)
RowLost ==
    /\ sn.pc = "end"
    /\ sn' = [sn EXCEPT !.pc = "rolled_back"]
    /\ OnlySn

(* A later cycle fetches the slot again: the row exists, `continue`. *)
SeenAgain ==
    /\ sn.pc = "committed"
    /\ now + BoostedSleep <= MaxTime
    /\ now' = now + BoostedSleep
    /\ UNCHANGED <<today, alerts, ledger, notified, pc, loop_count, queue,
                   boosted_count, tickLog, pa, prev, probe, rc, sn>>

NextNotify ==
    \/ SlotAdded
    \/ get_user_info
    \/ send_slot_notification
    \/ LoadPushTokens
    \/ LoadPushTokensFails
    \/ send_slot_push_notification
    \/ Return
    \/ RowCommitted
    \/ RowLost
    \/ SeenAgain

SpecNotify == InitNotify /\ [][NextNotify]_vars

----------------------------------------------------------------------------
(* The cadence policy on its own: an alert row and a clock, the due check *)
(* of the sweep evaluated on them, the clock moved on and the check       *)
(* evaluated again on the same row.                                        *)

(* The probe's clock and timestamps are multiples of 5 s. *)
ProbeTimes == { 5 * k : k \in 0..MaxProbeStep }

ProbeAlerts ==
    { [NewAlert(0, <<0, 0>>, "c1", m, b) EXCEPT !.last_checked_at = lc,
                                               !.boost_expires_at = e] :
        m \in {1, 3}, b \in BOOLEAN,
        lc \in {Null} \cup ProbeTimes, e \in {Null} \cup ProbeTimes }

InitCadence ==
    /\ now = 0
    /\ today = 1
    /\ alerts = [a \in AlertIds |-> NewAlert(1, <<1800, 2000>>, "c1", 1, FALSE)]
    /\ ledger = <<>>
    /\ notified = [k \in SlotKeys |-> 0]
    /\ pc = "startup"
    /\ loop_count = 0
    /\ queue = <<>>
    /\ boosted_count = 0
    /\ tickLog = [a \in AlertIds |-> "none"]
    /\ pa = Idle
    /\ prev = NoPrev
    /\ \E r \in ProbeAlerts, t \in ProbeTimes :
          probe = [NoProbe EXCEPT !.alert = r, !.t = t]
    /\ rc = NoPass
    /\ sn = NoCall

(* The due check of the sweep on probe.alert at probe.t *)
Evaluate ==
    /\ ~probe.evaluated
    /\ probe' = [probe EXCEPT
                    !.interval = get_check_interval_seconds(probe.alert, probe.t),
                    !.due = ~NotDue(probe.alert, probe.t),
                    !.evaluated = TRUE]
    /\ UNCHANGED <<now, today, alerts, ledger, notified, pc, loop_count, queue,
                   boosted_count, tickLog, pa, prev, rc, sn>>

(* The clock moves on; the row is the same. *)
Advance ==
    /\ probe.evaluated
    /\ \E d \in {5, 10} :
          /\ probe.t + d \in ProbeTimes
          /\ probe' = [probe EXCEPT !.t = @ + d, !.evaluated = FALSE,
                                    !.was_due = probe.due]
    /\ UNCHANGED <<now, today, alerts, ledger, notified, pc, loop_count, queue,
                   boosted_count, tickLog, pa, prev, rc, sn>>

NextCadence == Evaluate \/ Advance

SpecCadence == InitCadence /\ [][NextCadence]_vars

----------------------------------------------------------------------------
(* Properties *)

SlotKey(alert_id, slot) ==
    <<alert_id, slot.playground_id, slot.date, slot.start_time>>

RowsWithKey(k) == { i \in 1..Len(ledger) : KeyOf(ledger[i]) = k }

Finished(outcome) == pa.pc = "done" /\ pa.outcome = outcome

(* The interval and the due check as the specification words them. *)
EffectiveInterval(alert, t) ==
    IF alert.boost_active /\ alert.boost_expires_at # Null
       /\ alert.boost_expires_at > t
    THEN BoostCheckIntervalSeconds
    ELSE alert.check_interval_minutes * SecondsPerMinute

IsDue(alert, t) ==
    \/ alert.last_checked_at = Null
    \/ t - alert.last_checked_at >= EffectiveInterval(alert, t)

(* C1. Dedup: over the whole run, every (alert, playground, date, start   *)
(* time) has at most one row in the ledger and at most one call of the    *)
(* notification dispatcher.                                                *)
C1_Dedup ==
    \A k \in SlotKeys :
        /\ Cardinality(RowsWithKey(k)) <= 1
        /\ notified[k] <= 1

(* C2. Baseline suppression: a cycle that starts with the baseline flag   *)
(* false never calls the dispatcher, and when it commits every slot the   *)
(* provider returned has a row in the ledger.                              *)
C2_BaselineSuppression ==
    /\ pa.is_baseline => pa.sent = {} /\ pa.stats.notifications_sent = 0
    /\ Finished("committed") /\ pa.is_baseline =>
          \A i \in 1..Len(pa.slots) : RowsWithKey(SlotKey(pa.id, pa.slots[i])) # {}

C2_Witness ==
    /\ Finished("committed")
    /\ pa.is_baseline
    /\ Len(pa.slots) >= 2
    /\ Len(ledger) > Len(pa.before.ledger)

(* C3. Idempotent re-run: when the call before this one was for the same  *)
(* alert, got the same provider result and was interrupted before its     *)
(* commit, this call notifies no slot that call had notified, and leaves  *)
(* one row per key.                                                        *)
C3_IdempotentRerun ==
    Finished("committed") /\ prev.sent # {} /\ prev.id = pa.id
        /\ prev.slots = pa.slots =>
            /\ pa.sent \cap prev.sent = {}
            /\ \A i \in 1..Len(pa.slots) :
                  Cardinality(RowsWithKey(SlotKey(pa.id, pa.slots[i]))) = 1

(* C4. No two rows of the ledger have the same (alert, playground, date,  *)
(* start time).                                                            *)
C4_UniqueKey ==
    \A i, j \in 1..Len(ledger) : i # j => KeyOf(ledger[i]) # KeyOf(ledger[j])

C4_Witness ==
    /\ Finished("committed")
    /\ \E i, j \in 1..Len(pa.slots) :
          /\ i < j
          /\ SlotKey(pa.id, pa.slots[i]) = SlotKey(pa.id, pa.slots[j])
          /\ Len(pa.pending) > 0
          /\ KeyOf(pa.pending[1]) = SlotKey(pa.id, pa.slots[i])

(* C5. A cycle whose provider call fails reports one error, processes no  *)
(* slot, and leaves last_checked_at, the baseline flag and the ledger as  *)
(* they were when it started.                                              *)
C5_ProviderError ==
    Finished("fetch_failed") =>
        /\ pa.stats.errors = 1
        /\ pa.stats.new_slots = 0 /\ pa.sent = {} /\ pa.pending = <<>>
        /\ alerts[pa.id].last_checked_at = pa.before.last_checked_at
        /\ alerts[pa.id].baseline_scraped = pa.before.baseline_scraped
        /\ ledger = pa.before.ledger

C5_Witness ==
    /\ Finished("fetch_failed")
    /\ pa.before.last_checked_at # Null
    /\ pa.before.baseline_scraped
    /\ pa.before.ledger # <<>>

(* C7. Cadence policy: the interval is the boost interval when the boost  *)
(* flag is set and the boost expiry is after now, the base interval       *)
(* otherwise, also when the flag is still set at or after the expiry.      *)
C7_CadencePolicy ==
    probe.evaluated =>
        probe.interval =
            IF probe.alert.boost_active /\ probe.alert.boost_expires_at > probe.t
            THEN BoostCheckIntervalSeconds
            ELSE probe.alert.check_interval_minutes * SecondsPerMinute

C7_Witness ==
    /\ probe.evaluated
    /\ probe.alert.boost_active
    /\ probe.alert.boost_expires_at # Null
    /\ probe.alert.boost_expires_at <= probe.t
    /\ probe.interval = probe.alert.check_interval_minutes * SecondsPerMinute

(* C8. Due check: the sweep starts a cycle for the next loaded alert      *)
(* exactly when last_checked_at is null or the seconds since it are at    *)
(* least the effective interval, and skips it otherwise.                   *)
C8_DueCheck ==
    [][AtNext /\ queue' # queue =>
         /\ (tickLog'[Head(queue).id] = "running") = IsDue(Head(queue).row, now)
         /\ (tickLog'[Head(queue).id] = "skipped") = ~IsDue(Head(queue).row, now)]_vars

C8_Witness ==
    /\ pa.pc = "fetch"
    /\ pa.before.last_checked_at # Null
    /\ now - pa.before.last_checked_at = EffectiveInterval(alerts[pa.id], now)

(* C9 as stated: boost flag set, base interval 180 s; 5 s before the      *)
(* boost expiry and 25 s after the last check the alert is due, 5 s after *)
(* the expiry and 35 s after the last check it is not.                     *)
C9_Example(before, after) ==
    /\ probe.evaluated
    /\ probe.alert.boost_active
    /\ probe.alert.check_interval_minutes = 3
    /\ probe.alert.boost_expires_at # Null
    /\ probe.alert.last_checked_at # Null
    =>
    /\ probe.alert.boost_expires_at - probe.t = 5
         /\ probe.t - probe.alert.last_checked_at = before => probe.due
    /\ probe.t - probe.alert.boost_expires_at = 5
         /\ probe.t - probe.alert.last_checked_at = after => ~probe.due

C9_AsStated == C9_Example(25, 35)

(* C9. Boost cadence example, with the last check 25 s before now: 5 s    *)
(* before the boost expiry (30 s after the last check) the alert is due,  *)
(* 5 s after the expiry (40 s after the last check) it is not.             *)
C9_BoostCadence == C9_Example(30, 40)

C9_Witness ==
    /\ probe.evaluated
    /\ probe.alert.boost_active
    /\ probe.alert.check_interval_minutes = 3
    /\ probe.alert.boost_expires_at # Null
    /\ probe.alert.last_checked_at # Null
    /\ probe.t - probe.alert.boost_expires_at = 5
    /\ probe.t - probe.alert.last_checked_at = 40
    /\ ~probe.due
    /\ probe.was_due

(* C10. Failure isolation: a failed cycle is returned to the sweep with   *)
(* an error counted, and when the sweep is over every alert the tick      *)
(* loaded has been skipped as not due or processed.                        *)
C10_FailureIsolation ==
    /\ pa.pc = "done" /\ pa.outcome \in {"no_club", "fetch_failed", "aborted"} =>
          pc = "sweep" /\ pa.stats.errors = 1
    /\ pc # "sweep" =>
          \A a \in AlertIds : tickLog[a] \in {"none", "skipped", "ok", "error"}

C10_Witness ==
    /\ Finished("committed")
    /\ \E b \in AlertIds : b # pa.id /\ tickLog[b] = "error"

(* C6. Retry liveness: when a cycle of an alert fails at a time when the  *)
(* alert's base interval since its last check will have passed by the     *)
(* next tick, and a next tick is within the horizon, a later tick loads   *)
(* the alert and finds it due, and a loaded alert that is due is          *)
(* attempted, unless it is deactivated or its target date passes.          *)
RetryOwed(a) ==
    /\ pa.pc = "done"
    /\ pa.id = a
    /\ pa.outcome \in {"no_club", "fetch_failed", "aborted"}
    /\ now + WORKER_CHECK_INTERVAL <= MaxTime
    /\ \/ pa.before.last_checked_at = Null
       \/ now + BoostedSleep - pa.before.last_checked_at
             >= alerts[a].check_interval_minutes * SecondsPerMinute

Gone(a) == ~alerts[a].is_active \/ alerts[a].target_date < today

LoadedDue(a) == tickLog[a] = "loaded" /\ IsDue(alerts[a], now)

C6_RetryLiveness ==
    \A a \in AlertIds :
        /\ RetryOwed(a) ~> (LoadedDue(a) \/ Gone(a))
        /\ LoadedDue(a) ~> (tickLog[a] = "running" \/ Gone(a))

C6_Witness ==
    /\ Finished("no_club")
    /\ tickLog[pa.id] = "running"
    /\ now >= WORKER_CHECK_INTERVAL
    /\ RetryOwed(pa.id)

(* C11. Supervised loop: while the horizon leaves room for the sleep, a   *)
(* sweep that raised backs off and comes back to the top of the loop, a   *)
(* loop at the top begins a tick (or fails again into the back-off), and  *)
(* a sweep in progress comes to its end: no state is terminal.             *)
C11_SupervisedLoop ==
    /\ (pc = "backoff" /\ now + BackoffSeconds <= MaxTime) ~> (pc = "tick")
    /\ (pc = "tick") ~> (pc \in {"sweep", "backoff"})
    /\ (pc \in {"sweep", "cleanup", "sleep"} /\ now + WORKER_CHECK_INTERVAL <= MaxTime)
          ~> (pc \in {"tick", "backoff"})
    /\ [](pc \in {"startup", "tick", "sweep", "cleanup", "sleep", "backoff"})

C11_Witness ==
    /\ pc = "sweep"
    /\ now = BackoffSeconds
    /\ loop_count = CleanupEvery
    /\ ~has_boosted
    /\ queue # <<>>

(* C12 as stated: after expire_boosts at time now, every alert that had   *)
(* the boost flag set and a boost expiry at or before now has the flag    *)
(* cleared and no expiry, and an alert whose expiry is after now is as it *)
(* was.                                                                    *)
C12_BoostExpirySweep ==
    rc.pc = "expired" =>
        \A a \in AlertIds :
            /\ rc.alerts[a].boost_active /\ rc.alerts[a].boost_expires_at # Null
                  /\ rc.alerts[a].boost_expires_at <= now
               => ~alerts[a].boost_active /\ alerts[a].boost_expires_at = Null
            /\ rc.alerts[a].boost_expires_at > now => alerts[a] = rc.alerts[a]

(* C13. Expiry cascade: after a cleanup pass that did not raise, every    *)
(* alert that was active with a target date before today is inactive with *)
(* its boost flag cleared, and no alert with a target date of today or    *)
(* later has been deactivated.                                             *)
C13_ExpiryCascade ==
    rc.pc = "cleaned" /\ rc.failure = "none" =>
        \A a \in AlertIds :
            /\ rc.alerts[a].is_active /\ rc.alerts[a].target_date < today
               => ~alerts[a].is_active /\ ~alerts[a].boost_active
            /\ rc.alerts[a].target_date >= today
               => alerts[a].is_active = rc.alerts[a].is_active

C13_Witness ==
    /\ rc.pc = "cleaned" /\ rc.failure = "none"
    /\ rc.alerts["a1"].is_active /\ rc.alerts["a1"].boost_active
    /\ rc.alerts["a1"].boost_expires_at > now
    /\ rc.alerts["a1"].target_date = today - 1
    /\ ~alerts["a1"].is_active /\ ~alerts["a1"].boost_active
    /\ rc.alerts["a2"].is_active /\ rc.alerts["a2"].target_date = today
    /\ alerts["a2"].is_active

(* C14. Retention: a cleanup pass that did not raise keeps exactly the    *)
(* slot rows whose date is at most 7 days before today, in their order: a *)
(* row dated today-8 is removed, rows dated today-7 and today-6 stay.      *)
WithinRetention(row) == today - row.date <= RetentionDays

C14_Retention ==
    rc.pc = "cleaned" /\ rc.failure = "none" =>
        ledger = SelectSeq(rc.ledger, WithinRetention)

C14_Witness ==
    /\ rc.pc = "cleaned" /\ rc.failure = "none"
    /\ \E i \in 1..Len(rc.ledger) : rc.ledger[i].date = today - 8
    /\ Len(ledger) = 2
    /\ ledger[1].date = today - 7
    /\ ledger[2].date = today - 6

(* C15 as stated, for the pruning step: when the delete of old slot rows  *)
(* raises, the alerts whose target date has passed are deactivated all    *)
(* the same.                                                               *)
C15_IndependentUnits ==
    rc.pc = "cleaned" /\ rc.failure = "prune" =>
        \A a \in AlertIds :
            rc.alerts[a].is_active /\ rc.alerts[a].target_date < today
                => ~alerts[a].is_active

(* C16: the dispatcher returns true exactly when the email send or the    *)
(* push send to at least one active endpoint succeeded, and false when     *)
(* every attempted send failed or there was nothing to send to.            *)
C16_NotificationResult ==
    (sn.pc \in {"end", "committed", "rolled_back"} /\ Notifies(sn.is_baseline))
        => (sn.result <=> (sn.email_sent \/ sn.pushed # {}))

C16_Witness ==
    /\ sn.pc = "end"
    /\ sn.result
    /\ sn.email /\ ~sn.email_sent
    /\ sn.pushed # {}
    /\ sn.attempted # sn.pushed

Range(f) == {f[i] : i \in DOMAIN f}

(* C17: whatever the email outcome (no address, or a failed send), and    *)
(* whatever the outcome of each push, every active endpoint the token      *)
(* query returned has had its push attempt when the dispatcher returns.    *)
C17_FanOut ==
    (sn.pc \in {"end", "committed", "rolled_back"} /\ Notifies(sn.is_baseline)
        /\ ~sn.query_failed)
        => sn.attempted = Range(sn.push_tokens)

C17_Witness ==
    /\ sn.pc = "end"
    /\ ~sn.email
    /\ Len(sn.push_tokens) = MaxEndpoints
    /\ sn.push_tokens[1] \notin sn.pushed
    /\ sn.attempted = Endpoints
    /\ sn.pushed # {}

(* C18: a cycle in which send_notification returned false for every new  *)
(* slot still commits: a row for each of those slots is in the ledger,     *)
(* every fetched slot was processed and last_checked_at moved; and a row   *)
(* in the ledger stays there in every step unless the retention pruning    *)
(* removes it, so the existence query finds it in every later cycle.       *)
C18_FailureKeepsRow ==
    /\ []((Finished("committed") /\ pa.sent # {} /\ pa.stats.notifications_sent = 0)
            => /\ \A k \in pa.sent : RowsWithKey(k) # {}
               /\ pa.i > Len(pa.slots)
               /\ alerts[pa.id].last_checked_at > pa.before.last_checked_at)
    /\ [][\A i \in 1..Len(ledger) :
             IsRecent(ledger[i]) => \E j \in 1..Len(ledger') : ledger'[j] = ledger[i]]_vars

C18_Witness ==
    /\ Finished("committed")
    /\ Cardinality(pa.sent) >= 2
    /\ pa.stats.notifications_sent = 0
    /\ \A k \in pa.sent : RowsWithKey(k) # {}

(* C19: when a push to at least one endpoint succeeded for a new slot,   *)
(* the slot's row has push_sent set and a push_sent_at timestamp when the  *)
(* dispatcher has returned, whatever the email outcome was.                *)
C19_PushRecorded ==
    (sn.pc \in {"end", "committed"} /\ sn.pushed # {})
        => (sn.detected_slot.push_sent /\ sn.detected_slot.push_sent_at # Null)

(* C20: a committed row has email_sent set, with a timestamp, exactly     *)
(* when the email send of the cycle that created it succeeded; a row of a  *)
(* baseline cycle or of a failed send has it unset; and the committed row  *)
(* is the same in every later state.                                       *)
C20_EmailRecorded ==
    /\ [](sn.pc = "committed"
            => /\ sn.row.email_sent <=> sn.email_sent
               /\ sn.row.email_sent <=> sn.row.email_sent_at # Null
               /\ sn.row.email_sent => sn.row.email_sent_at <= now
               /\ sn.is_baseline => ~sn.row.email_sent)
    /\ [][sn.pc = "committed" => sn'.row = sn.row]_vars

C20_Witness ==
    /\ sn.pc = "committed"
    /\ sn.row.email_sent
    /\ sn.row.email_sent_at # Null
    /\ now > sn.row.email_sent_at
    /\ sn.attempted # {} /\ sn.pushed = {}

(* C21: a cycle whose club does not resolve counts one error and returns *)
(* without a provider call, leaving the alert active and last_checked_at,  *)
(* the baseline flag and the ledger as they were; the provider is called   *)
(* only for an alert whose club resolves; and while the horizon leaves     *)
(* room for the next tick, a later tick loads the alert and finds it due,  *)
(* and a loaded, due alert without a club comes to the same return again,  *)
(* unless the alert is deactivated or its date passes.                     *)
C21_MissingClub ==
    /\ [](Finished("no_club")
            => /\ pa.stats.errors = 1
               /\ pa.slots = <<>> /\ pa.pending = <<>>
               /\ alerts[pa.id].is_active
               /\ alerts[pa.id].last_checked_at = pa.before.last_checked_at
               /\ alerts[pa.id].baseline_scraped = pa.before.baseline_scraped
               /\ ledger = pa.before.ledger)
    /\ [][pa'.pc = "fetch" => alerts[pa'.id].club_id \in Clubs]_vars
    /\ \A a \in AlertIds :
          /\ (Finished("no_club") /\ pa.id = a /\ now + WORKER_CHECK_INTERVAL <= MaxTime)
                ~> (LoadedDue(a) \/ Gone(a))
          /\ (LoadedDue(a) /\ alerts[a].club_id \notin Clubs)
                ~> ((Finished("no_club") /\ pa.id = a) \/ Gone(a))

C21_Witness ==
    /\ Finished("no_club")
    /\ now = 2 * WORKER_CHECK_INTERVAL
    /\ alerts[pa.id].is_active
    /\ alerts[pa.id].last_checked_at = Null
    /\ ~alerts[pa.id].baseline_scraped

(* C22: a committed cycle that began without the baseline flag ends with *)
(* the flag set, whatever the provider returned; a cycle that begins with  *)
(* the flag set is a notifying one; and an alert that has been checked     *)
(* once has its baseline, so its next committed cycle can notify.          *)
C22_BaselineCompletion ==
    /\ Finished("committed") =>
          /\ alerts[pa.id].baseline_scraped
          /\ pa.is_baseline = ~pa.before.baseline_scraped
          /\ pa.before.baseline_scraped => Notifies(pa.is_baseline)
    /\ \A a \in AlertIds :
          alerts[a].last_checked_at # Null => alerts[a].baseline_scraped

C22_Witness ==
    /\ Finished("committed")
    /\ ~pa.is_baseline
    /\ pa.sent # {}
    /\ pa.before.ledger = <<>>
    /\ Len(ledger) = Cardinality(pa.sent)

(* C23: when the slot the loop is at has the alert, playground, date and *)
(* start time of a row of the ledger, the step taken adds no row, makes no *)
(* notification, counts no new slot and leaves the ledger as it is, also   *)
(* when the duration of the fetched slot differs from the stored one.      *)
KeyInLedger(k) == \E i \in 1..Len(ledger) : KeyOf(ledger[i]) = k

C23_KeyGovernsNovelty ==
    [][(AtSlot /\ KeyInLedger(SlotKey(pa.id, pa.slots[pa.i])))
          => /\ ledger' = ledger
             /\ notified' = notified
             /\ Len(pa'.pending) <= Len(pa.pending)
             /\ pa'.sent = pa.sent
             /\ pa'.stats.new_slots = pa.stats.new_slots
             /\ pa'.stats.notifications_sent = pa.stats.notifications_sent]_vars

C23_Witness ==
    /\ pa.pc = "slots"
    /\ pa.i = 2
    /\ ~pa.is_baseline
    /\ pa.pending = <<>>
    /\ pa.stats = NoStats
    /\ \E i \in 1..Len(ledger) :
          /\ KeyOf(ledger[i]) = SlotKey(pa.id, pa.slots[1])
          /\ ledger[i].duration_minutes # pa.slots[1].duration_minutes

(* C24: the scenario.  Cycle 1 of an alert that was never checked and has *)
(* no row, with court A at 18:30 for 60 minutes as the only slot fetched,   *)
(* commits with the baseline set, no notification attempt and one row       *)
(* more.  A committed cycle 2 that began with that single row and fetched   *)
(* the same slot and court B at 19:00 leaves the rows there as they were,   *)
(* adds one row, for B, and makes one notification attempt, for B.          *)
SlotA(d) == [playground_id |-> "A", date |-> d, start_time |-> 1830,
             duration_minutes |-> 60]

SlotB(d) == [playground_id |-> "B", date |-> d, start_time |-> 1900,
             duration_minutes |-> 60]

RowsOf(rows, a) == { i \in 1..Len(rows) : rows[i].alert_id = a }

C24_Cycle1 ==
    /\ Finished("committed")
    /\ pa.before.last_checked_at = Null
    /\ RowsOf(pa.before.ledger, pa.id) = {}
    /\ pa.slots = <<SlotA(pa.target_date)>>

C24_Cycle2 ==
    /\ Finished("committed")
    /\ pa.before.baseline_scraped
    /\ \E i \in 1..Len(pa.before.ledger) :
          /\ RowsOf(pa.before.ledger, pa.id) = {i}
          /\ pa.before.ledger[i] = DetectedSlot(pa.id, SlotA(pa.target_date))
    /\ pa.slots = <<SlotA(pa.target_date), SlotB(pa.target_date)>>

C24_Scenario ==
    /\ C24_Cycle1 =>
          /\ alerts[pa.id].baseline_scraped
          /\ pa.sent = {}
          /\ pa.stats.notifications_sent = 0
          /\ ledger = Append(pa.before.ledger, DetectedSlot(pa.id, SlotA(pa.target_date)))
    /\ C24_Cycle2 =>
          /\ ledger = Append(pa.before.ledger, DetectedSlot(pa.id, SlotB(pa.target_date)))
          /\ pa.sent = {SlotKey(pa.id, SlotB(pa.target_date))}
          /\ pa.stats.new_slots = 1
          /\ pa.stats.notifications_sent <= 1

C24_Witness ==
    /\ C24_Cycle2
    /\ pa.before.last_checked_at = 0
    /\ notified[SlotKey(pa.id, SlotB(pa.target_date))] = 1
    /\ pa.stats.notifications_sent = 1

(* C25: the alerts a tick takes up are exactly those that are active     *)
(* with a target date of today or later when it loads them, and a cycle    *)
(* goes to the provider only for an alert that is active and not dated     *)
(* before today when the cycle starts.                                     *)
QueuedIds(q) == { q[i].id : i \in 1..Len(q) }

C25_TickSelection ==
    /\ [][(pc = "tick" /\ pc' = "sweep")
            => QueuedIds(queue') =
                  { a \in AlertIds : alerts'[a].is_active /\ alerts'[a].target_date >= today' }]_vars
    /\ [][(pa.pc # "fetch" /\ pa'.pc = "fetch")
            => /\ alerts[pa'.id].is_active
               /\ alerts[pa'.id].target_date >= today]_vars

C25_Witness ==
    /\ pc = "sweep"
    /\ Finished("expired")
    /\ pa.slots = <<>>
    /\ alerts[pa.id].target_date < today
    /\ \E b \in AlertIds : b # pa.id /\ tickLog[b] = "skipped" /\ ~alerts[b].is_active

(* C26: at most one alert is in a cycle at any moment, and it is the one  *)
(* process_alert is running for; a cycle begins only when none is in       *)
(* flight; and the loop leaves the sweep, and a new tick begins, only      *)
(* when none is in flight.                                                 *)
InFlight == { a \in AlertIds : tickLog[a] = "running" }

C26_Sequential ==
    /\ [](/\ Cardinality(InFlight) <= 1
          /\ pa.pc # "idle" => InFlight = {pa.id}
          /\ pa.pc = "idle" => InFlight = {})
    /\ [][\A a \in AlertIds :
            (tickLog[a] # "running" /\ tickLog'[a] = "running")
                => (InFlight = {} /\ pa.pc = "idle")]_vars
    /\ [][pc' # pc => (InFlight = {} /\ pa.pc = "idle")]_vars

C26_Witness ==
    /\ pa.pc = "slots"
    /\ InFlight = {pa.id}
    /\ queue # <<>>
    /\ now > 0
    /\ alerts[pa.id].last_checked_at # Null

(* C27: an alert that is active with a target date before today, at a    *)
(* moment when a cleanup pass is still ahead within the horizon, is later  *)
(* inactive (deactivated by cleanup_expired_data or by process_alert), or  *)
(* paused, unless the pass of the loop raised.                             *)
PastActive(a) == alerts[a].is_active /\ alerts[a].target_date < today

CleanupAhead ==
    \/ pc = "startup"
    \/ /\ loop_count < CleanupEvery
       /\ now + (CleanupEvery - loop_count) * WORKER_CHECK_INTERVAL <= MaxTime
    \/ loop_count = CleanupEvery /\ pc \in {"sweep", "cleanup"}

C27_PastDateDeactivated ==
    \A a \in AlertIds :
        (PastActive(a) /\ CleanupAhead)
            ~> (~PastActive(a) \/ (rc.pc = "loop" /\ rc.failure # "none"))

C27_Witness ==
    /\ pc = "sleep"
    /\ rc.pc = "loop" /\ rc.failure = "none"
    /\ \E a \in AlertIds :
          /\ alerts[a].target_date < today
          /\ ~alerts[a].is_active
          /\ ~alerts[a].boost_active
          /\ alerts[a].boost_expires_at # Null

(* C28: no step of the worker sets boost_active where it was not set, or *)
(* gives boost_expires_at a value other than the one it had or none; the   *)
(* worker's writes to the boost fields clear them.                         *)
C28_NeverInitiatesBoost ==
    [][\A a \in AlertIds :
          /\ alerts'[a].boost_active => alerts[a].boost_active
          /\ alerts'[a].boost_expires_at \in {alerts[a].boost_expires_at, Null}]_vars

C28_Witness ==
    /\ pc = "sweep"
    /\ \E a \in AlertIds :
          /\ ~alerts[a].boost_active
          /\ alerts[a].boost_expires_at = Null
          /\ alerts[a].last_checked_at = BoostCheckIntervalSeconds
          /\ now > BoostLeft

(* C29: the step that commits a cycle changes last_checked_at and the    *)
(* baseline flag of the cycle's alert and nothing else of any alert: the   *)
(* other fields are after it what the table held before it, edits made by  *)
(* the API during the cycle included.                                      *)
CoreFields == {"last_checked_at", "baseline_scraped"}

C29_PartialWrite ==
    [][(pa.pc = "slots" /\ pa'.pc = "done" /\ pa'.outcome = "committed")
          => /\ \A f \in DOMAIN alerts[pa.id] \ CoreFields :
                    alerts'[pa.id][f] = alerts[pa.id][f]
             /\ \A b \in AlertIds \ {pa.id} : alerts'[b] = alerts[b]]_vars

C29_Witness ==
    /\ Finished("committed")
    /\ alerts[pa.id].last_checked_at = now
    /\ pa.before.row.is_active /\ ~alerts[pa.id].is_active
    /\ ~pa.before.row.boost_active /\ alerts[pa.id].boost_active
    /\ alerts[pa.id].boost_expires_at = now + BoostDuration
    /\ alerts[pa.id].target_date # pa.before.row.target_date

(* C30: last_checked_at and the baseline flag of an alert change only in *)
(* the step that commits its cycle, taken when every fetched slot has been *)
(* processed; the ledger changes only in that step or in a cleanup pass;   *)
(* and a cycle that ended any other way has left last_checked_at, the      *)
(* baseline flag and the ledger as they were when it began.                *)
Commits(a) ==
    /\ pa.pc = "slots" /\ pa.i > Len(pa.slots) /\ pa.id = a
    /\ pa'.pc = "done" /\ pa'.outcome = "committed"

C30_WrittenAfterFullCycle ==
    /\ [][\A a \in AlertIds :
            (\/ alerts'[a].last_checked_at # alerts[a].last_checked_at
             \/ alerts'[a].baseline_scraped # alerts[a].baseline_scraped)
                => Commits(a)]_vars
    /\ [][ledger' # ledger
            => (pc \in {"startup", "cleanup"} \/ \E a \in AlertIds : Commits(a))]_vars
    /\ []((pa.pc = "done" /\ pa.outcome # "committed")
            => /\ alerts[pa.id].last_checked_at = pa.before.last_checked_at
               /\ alerts[pa.id].baseline_scraped = pa.before.baseline_scraped
               /\ ledger = pa.before.ledger)

C30_Witness ==
    /\ Finished("aborted")
    /\ pa.is_baseline
    /\ pa.stats.new_slots >= 2
    /\ pa.i > Len(pa.slots)
    /\ ~alerts[pa.id].baseline_scraped
    /\ alerts[pa.id].last_checked_at = Null
    /\ ledger = pa.before.ledger

(* C31: a cycle that finds its alert active with a target date before    *)
(* today ends with the alert inactive and its boost flag cleared, the      *)
(* boost expiry being the one it had, with no provider call, no new row    *)
(* and no statistics, and with last_checked_at, the baseline flag and the  *)
(* ledger as they were; and a call made for an alert that is inactive      *)
(* returns without changing the alerts, the ledger or the notifications.   *)
C31_ExpiredClearsFlag ==
    /\ [](Finished("expired") =>
            /\ ~alerts[pa.id].is_active
            /\ ~alerts[pa.id].boost_active
            /\ alerts[pa.id].boost_expires_at = pa.before.row.boost_expires_at
            /\ pa.slots = <<>> /\ pa.pending = <<>> /\ pa.stats = NoStats
            /\ alerts[pa.id].last_checked_at = pa.before.last_checked_at
            /\ alerts[pa.id].baseline_scraped = pa.before.baseline_scraped
            /\ ledger = pa.before.ledger)
    /\ [][(pa.pc = "idle" /\ pa'.pc = "done" /\ pa'.outcome = "inactive")
            => (alerts' = alerts /\ ledger' = ledger /\ notified' = notified)]_vars

C31_Witness ==
    /\ Finished("expired")
    /\ BoostUnexpired(pa.before.row, now)
    /\ ~alerts[pa.id].is_active
    /\ ~alerts[pa.id].boost_active
    /\ alerts[pa.id].boost_expires_at = BoostLeft

(* C31 as stated: the cycle also sets the boost expiry to none. *)
C31_ExpiredDeactivation ==
    Finished("expired") =>
        /\ ~alerts[pa.id].is_active
        /\ ~alerts[pa.id].boost_active
        /\ alerts[pa.id].boost_expires_at = Null
        /\ pa.slots = <<>> /\ pa.pending = <<>> /\ pa.stats = NoStats
        /\ alerts[pa.id].last_checked_at = pa.before.last_checked_at
        /\ alerts[pa.id].baseline_scraped = pa.before.baseline_scraped
        /\ ledger = pa.before.ledger

(* C32: the step that takes a loaded alert whose due check is false off   *)
(* the sweep starts no call of process_alert and no pause, and leaves the  *)
(* alerts, the ledger, the notifications and the clock as they were; and   *)
(* for the rest of the sweep the skipped alert keeps its last_checked_at,  *)
(* baseline flag and boost fields, and its rows in the ledger.             *)
BoostFields == {"boost_active", "boost_expires_at"}

LedgerOf(rows, a) == { rows[i] : i \in RowsOf(rows, a) }

C32_SkipNoEffect ==
    /\ [][(AtNext /\ ~IsDue(Head(queue).row, now) /\ queue' # queue)
            => /\ tickLog'[Head(queue).id] = "skipped"
               /\ pa' = pa
               /\ alerts' = alerts
               /\ ledger' = ledger
               /\ notified' = notified
               /\ now' = now]_vars
    /\ [][\A a \in AlertIds :
            (pc = "sweep" /\ tickLog[a] = "skipped" /\ tickLog'[a] = "skipped")
                => /\ \A f \in CoreFields \cup BoostFields : alerts'[a][f] = alerts[a][f]
                   /\ LedgerOf(ledger', a) = LedgerOf(ledger, a)]_vars

C32_Witness ==
    /\ pc = "sweep"
    /\ \E a, b \in AlertIds :
          /\ tickLog[a] = "skipped"
          /\ alerts[a].last_checked_at # Null
          /\ alerts[a].last_checked_at < now
          /\ tickLog[b] = "ok"
          /\ alerts[b].last_checked_at = now
          /\ LedgerOf(ledger, a) # {}
          /\ LedgerOf(ledger, b) # {}

(* C33: the sleep that ends a tick whose sweep did not raise lasts the    *)
(* shortened interval exactly when, at that moment, some alert is active   *)
(* with its boost flag set and its boost expiry after now, and the default *)
(* interval otherwise.                                                     *)
AnyBoosted ==
    \E a \in AlertIds :
        /\ alerts[a].is_active
        /\ alerts[a].boost_active
        /\ alerts[a].boost_expires_at > now

C33_TickSleep ==
    [][(pc = "sleep" /\ pc' = "tick")
          => now' = now + (IF AnyBoosted THEN BoostedSleep ELSE WORKER_CHECK_INTERVAL)]_vars

C33_Witness ==
    /\ pc = "tick"
    /\ now = WORKER_CHECK_INTERVAL + BoostedSleep
    /\ boosted_count = 0
    /\ \E a \in AlertIds :
          /\ alerts[a].is_active
          /\ alerts[a].boost_active
          /\ alerts[a].boost_expires_at > now
          /\ alerts[a].target_date < today

(* C34: the due check of a tick is made on the alert as the tick loaded   *)
(* it: when a boost was activated on the alert after the load, the alert   *)
(* is processed in that tick exactly when it is due on its base interval;  *)
(* every tick loads the boost fields the table holds at that moment; and   *)
(* an alert loaded with an unexpired boost is processed exactly when the   *)
(* boost interval has passed since its last check.                         *)
ActivatedSinceLoad(e) ==
    /\ ~BoostUnexpired(e.row, now)
    /\ BoostUnexpired(alerts[e.id], now)

Elapsed(row, interval) ==
    \/ row.last_checked_at = Null
    \/ now - row.last_checked_at >= interval

C34_CadencePerTick ==
    /\ [][(AtNext /\ queue' # queue /\ ActivatedSinceLoad(Head(queue)))
            => ((tickLog'[Head(queue).id] = "running")
                  = Elapsed(Head(queue).row,
                            Head(queue).row.check_interval_minutes * SecondsPerMinute))]_vars
    /\ [][(pc = "tick" /\ pc' = "sweep")
            => \A i \in 1..Len(queue') :
                  \A f \in BoostFields : queue'[i].row[f] = alerts'[queue'[i].id][f]]_vars
    /\ [][(AtNext /\ queue' # queue /\ BoostUnexpired(Head(queue).row, now))
            => ((tickLog'[Head(queue).id] = "running")
                  = Elapsed(Head(queue).row, BoostCheckIntervalSeconds))]_vars

C34_Witness ==
    /\ pc = "sweep"
    /\ \E a \in AlertIds :
          /\ tickLog[a] = "skipped"
          /\ BoostUnexpired(alerts[a], now)
          /\ alerts[a].last_checked_at # Null
          /\ now - alerts[a].last_checked_at >= BoostCheckIntervalSeconds

(* C35: the step that leaves the startup is a full cleanup pass; a tick   *)
(* whose ordinal is a multiple of 100 leaves its sweep only into a full    *)
(* cleanup pass; and the step that begins a tick's sweep has run           *)
(* expire_boosts, the rows the tick loads being the rows after it.         *)
C35_ReclaimerSchedule ==
    /\ [][(pc = "startup" /\ pc' # pc)
            => (pc' = "tick" /\ loop_count' = loop_count
                  /\ \E failure \in CleanupFailures : Cleanup(failure))]_vars
    /\ [][(CleanupIsDue(loop_count') /\ pc \in {"tick", "sweep"} /\ pc' # pc)
            => pc' \in {"sweep", "cleanup"}]_vars
    /\ [][(pc = "cleanup" /\ pc' # pc)
            => \E failure \in CleanupFailures : Cleanup(failure)]_vars
    /\ [][(pc = "tick" /\ pc' = "sweep")
            => /\ alerts' = expire_boosts(alerts, now)
               /\ \A i \in 1..Len(queue') : queue'[i].row = alerts'[queue'[i].id]]_vars

(* C36: a provider fetch for an alert that has been checked starts only   *)
(* when the time since the last_checked_at in the table is at least the    *)
(* interval of the row the due check was made on: the boost interval while *)
(* its boost is unexpired, its base interval otherwise.                    *)
C36_MinimumSpacing ==
    [][(pa.pc # "fetch" /\ pa'.pc = "fetch"
            /\ alerts[pa'.id].last_checked_at # Null)
          => now >= alerts[pa'.id].last_checked_at
                      + EffectiveInterval(Head(queue).row, now)]_vars

C36_Witness ==
    /\ pa.pc = "fetch"
    /\ ~pa.is_baseline
    /\ pa.before.row.check_interval_minutes = 3
    /\ BoostUnexpired(pa.before.row, now)
    /\ pa.before.last_checked_at # Null
    /\ now - pa.before.last_checked_at = BoostCheckIntervalSeconds

(* C37: when the target date of an alert was changed while its cycle was  *)
(* in flight, the baseline flag is still reset after the cycle's commit;   *)
(* and the first committed cycle on the new date (the one that follows the *)
(* run's first committed cycle, which fetched the old date) makes no       *)
(* notification attempt.                                                   *)
C37_BaselineAfterDateChange ==
    /\ (Finished("committed") /\ alerts[pa.id].target_date # pa.target_date)
          => ~alerts[pa.id].baseline_scraped
    /\ (Finished("committed") /\ pa.target_date = 2 /\ pa.before.last_checked_at = 0)
          => (pa.sent = {} /\ pa.stats.notifications_sent = 0)

(* C38: no step clears, or changes, a boost whose expiry is after now:    *)
(* an alert with the boost flag set and a boost expiry in the future has   *)
(* the same flag and expiry after the step, also when the boost was        *)
(* activated after expire_boosts selected the alert as expired.            *)
C38_FutureBoostKept ==
    [][\A a \in AlertIds :
          BoostUnexpired(alerts[a], now)
              => /\ alerts'[a].boost_active
                 /\ alerts'[a].boost_expires_at = alerts[a].boost_expires_at]_vars

(* C39: when a cycle has returned, however it ended, the new_slots it     *)
(* reports is the number of rows the ledger has gained since it began.     *)
C39_StatsMatchLedger ==
    pa.pc = "done" =>
        pa.stats.new_slots = Len(ledger) - Len(pa.before.ledger)

(* C40: when the next alert of the sweep is due and was paused or deleted *)
(* since the tick loaded it, the step taken for it returns from            *)
(* process_alert at once: no provider call, no row added, no notification, *)
(* no write to the alerts or the ledger, and no error counted.             *)
PausedOrDeleted(a) == alerts[a] = NoRow \/ ~alerts[a].is_active

C40_PausedOrDeletedMidTick ==
    /\ [][(AtNext /\ IsDue(Head(queue).row, now) /\ queue' # queue
              /\ PausedOrDeleted(Head(queue).id))
            => /\ pa'.pc = "done"
               /\ pa'.id = Head(queue).id
               /\ pa'.slots = <<>> /\ pa'.pending = <<>> /\ pa'.sent = {}
               /\ pa'.stats = NoStats
               /\ alerts' = alerts
               /\ ledger' = ledger
               /\ notified' = notified]_vars
    /\ [](pa.pc = "fetch" => (pa.before.row # NoRow /\ pa.before.row.is_active))
    /\ [](pa.pc = "done" /\ pa.outcome \in {"inactive", "not_found"}
            => /\ alerts[pa.id] = pa.before.row
               /\ ledger = pa.before.ledger
               /\ pa.stats.errors = 0)

C40_Witness ==
    /\ Finished("not_found")
    /\ alerts[pa.id] = NoRow
    /\ pa.stats = NoStats
    /\ \E b \in AlertIds :
          /\ b # pa.id
          /\ tickLog[b] = "ok"
          /\ alerts[b] # NoRow
          /\ ~alerts[b].is_active
          /\ alerts[b].target_date >= today
          /\ alerts[b].last_checked_at = Null

====
